---- MODULE Spec2Model ----
(***************************************************************************)
(* Model of src/utility.py: the sliding-window APIRateLimiter, the         *)
(* InMemoryCache and the GoogleSheetsClient that sits behind the limiter.  *)
(*                                                                         *)
(* Time is a discrete clock `now` whose unit is the limiter's epsilon      *)
(* (0.1 s in the source); the window and the call quota are scaled down.   *)
(***************************************************************************)
EXTENDS Integers, Sequences, FiniteSets, TLC

\* ------------------------------------------------------------------ bounds
NumCallers == 3
MaxCalls == 2
Window == 3
MaxTime == 12
\* the "+ 0.1" of wait_time: one clock unit
Epsilon == 1
\* InMemoryCache: max_size, the clock of its runs, ttl and access_count
MaxSize == 2
MaxCacheTime == 2
MaxAccess == 1
\* snapshots and restores in one run
MaxBackups == 1
MaxRestores == 1
\* GoogleSheetsClient: operations in one run, the clock of its runs, and
\* _refresh_interval in clock units
NumClients == 2
MaxOps == 4
MaxClientTime == 5
RefreshInterval == 3
\* _max_connection_attempts
MaxConnectionAttempts == 3
\* open_by_url and worksheet
OpenCallsPerSheet == 2
\* cleanup_threshold = 0.8, and the tenth that _evict_lru removes
ThresholdNum == 8
ThresholdDen == 10
EvictDivisor == 10
\* the data layer: coins a row can hold, SHORT_CACHE_TTL, DEFAULT_CACHE_TTL and
\* LONG_CACHE_TTL in clock units, operations in one run and the clock of its runs
MaxCoins == 1
ShortTTL == 1
DefaultTTL == 2
LongTTL == 3
MaxDataOps == 3
MaxDataTime == 4

Procs == 1..NumCallers
None == 0

VARIABLES
    now,          \* the clock read by time.time() / datetime.now()
    calls,        \* APIRateLimiter.calls
    lockHolder,   \* APIRateLimiter._lock: the task that owns it, or None
    lockWaiters,  \* APIRateLimiter._lock: FIFO of tasks suspended on it
    pc,           \* where each task is
    op,           \* what each task is running
    wakeAt,       \* deadline of the task's asyncio.sleep
    callAt,       \* history: when the task in acquire() called it
    ahead,        \* history: tasks in front of it at the lock when it called
    lastGrant,    \* history: the most recent return of acquire()
    grants,       \* history: every timestamp acquire() has returned
    cache,        \* InMemoryCache._cache, in the order of the OrderedDict
    disk,         \* the file CACHE_BACKUP_FILE
    backupData,   \* _backup_to_disk: the snapshot it is about to write
    restoreData,  \* restore_from_disk: the content it has read
    backups,      \* how many snapshots have been taken
    restores,     \* how many times restore_from_disk has read the file
    closing,      \* shutdown(): where it is, its snapshot, the backup task it cancelled
    credentials,  \* GoogleSheetsClient._credentials is loaded
    client,       \* GoogleSheetsClient._client is present
    inventory_sheet,      \* GoogleSheetsClient._inventory_sheet is present
    metadata_sheet,       \* GoogleSheetsClient._metadata_sheet is present
    last_refresh,         \* GoogleSheetsClient._last_refresh
    connection_attempts,  \* GoogleSheetsClient._connection_attempts
    stats,        \* GoogleSheetsClient._stats
    ranges,       \* the sheets the ranges of the task's batch_get fall in
    result,       \* how the task's last store operation ended
    netRequests,  \* history: requests sent to the store, counted up to MaxOps + 1
    retries,      \* history: failed get_sheets attempts of the task's operation
    sheet,        \* the store: the coins and corruption cells of each user's row
    dataOps,      \* history: data-layer operations run
    lastCall,     \* history: the most recent data-layer call and what it returned
    dataTask,     \* where each caller of the data layer is, and what it holds
    opsStarted    \* history: store operations started

limiterVars == <<calls, lockHolder, lockWaiters, wakeAt, callAt, ahead, lastGrant, grants>>
cacheVars == <<cache, disk, backupData, restoreData, backups, restores, closing>>
clientVars == <<credentials, client, inventory_sheet, metadata_sheet, last_refresh,
                connection_attempts, stats, ranges, result, netRequests, retries,
                sheet, dataOps, lastCall, dataTask, opsStarted>>
vars == <<now, pc, op, limiterVars, cacheVars, clientVars>>

\* ------------------------------------------------------------ APIRateLimiter

\* self.calls = [t for t in self.calls if now - t < self.window]
Prune(cs, t) == SelectSeq(cs, LAMBDA c : t - c < Window)

\* wait_time = self.window - (now - oldest_call) + 0.1
WaitTimeSignSlip(t, oldest) == Window + (t - oldest) + Epsilon
WaitTimeShort(t, oldest) == (t - oldest) + Epsilon
WaitTime(t, oldest) == Window - (t - oldest) + Epsilon

\* the second clean-up, after the sleep (lines 166-167)
PruneAfterSleepSkipped(cs, t) == cs
PruneAfterSleep(cs, t) == Prune(cs, t)

\* asyncio.Lock.acquire(): taken at once only when nobody owns or awaits it
LockFreeIgnored == TRUE
LockFree == lockHolder = None /\ lockWaiters = <<>>

\* asyncio.Lock.release(): the lock passes to the first waiter, if any
NextHolderNobody == None
NextHolder == IF lockWaiters = <<>> THEN None ELSE Head(lockWaiters)

\* leaving `async with self._lock`; the history of the call is dropped
ReleaseKept(p) ==
    /\ UNCHANGED <<lockHolder, lockWaiters>>
    /\ callAt' = [callAt EXCEPT ![p] = 0]
    /\ ahead' = [ahead EXCEPT ![p] = 0]
Release(p) ==
    /\ lockHolder' = NextHolder
    /\ lockWaiters' = IF lockWaiters = <<>> THEN <<>> ELSE Tail(lockWaiters)
    /\ callAt' = [callAt EXCEPT ![p] = 0]
    /\ ahead' = [ahead EXCEPT ![p] = 0]

\* where a task goes when acquire() has returned
AfterGrant(o) == IF o = "acquire" THEN "idle" ELSE "connect"

\* lines 146-163: the window is full, the task sleeps holding the lock
Suspend(p, pruned) ==
    /\ calls' = pruned
    /\ pc' = [pc EXCEPT ![p] = "sleep"]
    /\ wakeAt' = [wakeAt EXCEPT ![p] = now + WaitTime(now, pruned[1])]
    /\ UNCHANGED <<lastGrant, grants>>

\* lines 169-171; `called` and `n` are what the history recorded at the call
Grant(p, pruned, called, n, o) ==
    /\ calls' = Append(pruned, now)
    /\ grants' = Append(grants, now)
    /\ lastGrant' = [task |-> p, waited |-> now - called, ahead |-> n,
                     slept |-> pc[p] = "sleep", size |-> Len(pruned) + 1]
    /\ pc' = [pc EXCEPT ![p] = AfterGrant(o)]
    /\ wakeAt' = [wakeAt EXCEPT ![p] = 0]

\* enough clock left for p and everyone ahead of it to be served
Horizon(n) == now + (n + 1) * (Window + Epsilon) <= MaxTime

QueueLen == Len(lockWaiters) + (IF lockHolder = None THEN 0 ELSE 1)

\* acquire(), lines 143-171, from the call to the first suspension
CallAcquire(p, o) ==
    /\ pc[p] = "idle"
    /\ Horizon(QueueLen)
    /\ op' = [op EXCEPT ![p] = o]
    /\ IF LockFree
       THEN LET pruned == Prune(calls, now) IN
            IF Len(pruned) >= MaxCalls
            THEN /\ Suspend(p, pruned)
                 /\ lockHolder' = p
                 /\ callAt' = [callAt EXCEPT ![p] = now]
                 /\ ahead' = [ahead EXCEPT ![p] = QueueLen]
                 /\ UNCHANGED lockWaiters
            ELSE /\ Grant(p, pruned, now, QueueLen, o)
                 /\ UNCHANGED <<lockHolder, lockWaiters, callAt, ahead>>
       ELSE /\ lockWaiters' = Append(lockWaiters, p)
            /\ pc' = [pc EXCEPT ![p] = "lock"]
            /\ callAt' = [callAt EXCEPT ![p] = now]
            /\ ahead' = [ahead EXCEPT ![p] = QueueLen]
            /\ UNCHANGED <<calls, lockHolder, wakeAt, lastGrant, grants>>
    /\ UNCHANGED <<now, cacheVars>>

\* a caller that wants nothing but the grant
Acquire(p) == CallAcquire(p, "acquire") /\ UNCHANGED clientVars

\* a task that waited for the lock is handed it and runs lines 146-171
Resume(p) ==
    /\ pc[p] = "lock"
    /\ lockHolder = p
    /\ LET pruned == Prune(calls, now) IN
       IF Len(pruned) >= MaxCalls
       THEN /\ Suspend(p, pruned)
            /\ UNCHANGED <<lockHolder, lockWaiters, callAt, ahead>>
       ELSE /\ Grant(p, pruned, callAt[p], ahead[p], op[p])
            /\ Release(p)
    /\ UNCHANGED <<now, op, cacheVars, clientVars>>

\* lines 163-171: the sleep is over (asyncio.sleep never returns early)
Wake(p) ==
    /\ pc[p] = "sleep"
    /\ now >= wakeAt[p]
    /\ Grant(p, PruneAfterSleep(calls, now), callAt[p], ahead[p], op[p])
    /\ Release(p)
    /\ UNCHANGED <<now, op, cacheVars, clientVars>>

\* a task that can run without waiting for the clock
Runnable(p) ==
    \/ pc[p] = "lock" /\ lockHolder = p
    \/ pc[p] = "sleep" /\ now >= wakeAt[p]

\* the clock advances at any moment: a woken task may be scheduled late
Tick ==
    /\ now < MaxTime
    /\ now' = now + 1
    /\ UNCHANGED <<pc, op, limiterVars, cacheVars, clientVars>>

\* the clock of an idle event loop: timers fire and woken tasks run on time
TickTimely ==
    /\ now < MaxTime
    /\ \A p \in Procs : ~Runnable(p)
    /\ now' = now + 1
    /\ UNCHANGED <<pc, op, limiterVars, cacheVars, clientVars>>

\* -------------------------------------------------------- GoogleSheetsClient

StoreOps == {"batch_get", "batch_update", "get_single_cell"}
\* batch_get sorts its ranges by sheet (lines 488-492)
RangeSets == {{"inventory"}, {"metadata"}, {"inventory", "metadata"}}

ClientProcs == 1..NumClients

\* the history counts requests up to one more than the grants a run can have
CountUpTo(n) == IF n > MaxOps + 1 THEN MaxOps + 1 ELSE n

Pow2(n) == IF n = 0 THEN 1 ELSE IF n = 1 THEN 2 ELSE IF n = 2 THEN 4 ELSE 8

\* batch_get / batch_update / get_single_cell start with rate_limiter.acquire()
\* (lines 481, 528, 553)
StartOp(p, o, rs) ==
    /\ opsStarted < MaxOps
    /\ o = "batch_get" \/ rs = {"inventory"}
    /\ CallAcquire(p, o)
    /\ ranges' = [ranges EXCEPT ![p] = rs]
    /\ result' = [result EXCEPT ![p] = "none"]
    /\ opsStarted' = opsStarted + 1
    /\ UNCHANGED <<credentials, client, inventory_sheet, metadata_sheet, last_refresh,
                   connection_attempts, stats, netRequests, retries, sheet, dataOps, lastCall, dataTask>>

\* _ensure_connection, lines 430-433: the session is dropped when it is old
StaleNever == FALSE
Stale == now - last_refresh > RefreshInterval

\* get_sheets, lines 454-460: open_by_url and worksheet for each absent sheet
OpenCalls ==
    (IF inventory_sheet /\ ~Stale THEN 0 ELSE OpenCallsPerSheet)
    + (IF metadata_sheet /\ ~Stale THEN 0 ELSE OpenCallsPerSheet)

\* the requests of the operation itself: one values_batch_get per sheet that has
\* ranges (lines 497-512), one values_batch_update (537), one acell (556)
OpCalls(p) == IF op[p] = "batch_get" THEN Cardinality(ranges[p]) ELSE 1

\* the except branch of the three operations (lines 519-523, 544-548, 563-567)
FailUncounted(p) ==
    /\ stats' = [stats EXCEPT !.failed_calls = @ + 1]
    /\ result' = [result EXCEPT ![p] = "failed"]
    /\ ranges' = [ranges EXCEPT ![p] = {}]
    /\ retries' = [retries EXCEPT ![p] = 0]
    /\ pc' = [pc EXCEPT ![p] = "idle"]
Fail(p) ==
    /\ stats' = [stats EXCEPT !.api_calls = @ + 1, !.failed_calls = @ + 1]
    /\ result' = [result EXCEPT ![p] = "failed"]
    /\ ranges' = [ranges EXCEPT ![p] = {}]
    /\ retries' = [retries EXCEPT ![p] = 0]
    /\ pc' = [pc EXCEPT ![p] = "idle"]

\* _ensure_connection could not load service_account.json (lines 435-442)
ConnectNoCredentials(p) ==
    /\ pc[p] = "connect"
    /\ ~credentials
    /\ client' = (client /\ ~Stale)
    /\ inventory_sheet' = (inventory_sheet /\ ~Stale)
    /\ metadata_sheet' = (metadata_sheet /\ ~Stale)
    /\ Fail(p)
    /\ UNCHANGED <<credentials, last_refresh, connection_attempts, netRequests, opsStarted,
                   sheet, dataOps, lastCall, dataTask>>
    /\ UNCHANGED <<now, op, limiterVars, cacheVars>>

\* _ensure_connection, lines 444-447: a new session resets the attempt counter
AttemptsAfterEnsure == IF client /\ ~Stale THEN connection_attempts ELSE 0
RefreshAfterEnsure == IF client /\ ~Stale THEN last_refresh ELSE now

\* get_sheets and the operation's own requests all succeed
\* (lines 451-462, then 497-517, 532-542 or 556-561)
RunOk(p) ==
    /\ pc[p] = "connect"
    /\ credentials' = TRUE
    /\ client' = TRUE
    /\ inventory_sheet' = TRUE
    /\ metadata_sheet' = TRUE
    /\ last_refresh' = RefreshAfterEnsure
    /\ connection_attempts' = AttemptsAfterEnsure
    /\ netRequests' = CountUpTo(netRequests + OpenCalls + OpCalls(p))
    /\ stats' = [stats EXCEPT !.api_calls = @ + 1, !.successful_calls = @ + 1]
    /\ result' = [result EXCEPT ![p] = "ok"]
    /\ ranges' = [ranges EXCEPT ![p] = {}]
    /\ retries' = [retries EXCEPT ![p] = 0]
    /\ pc' = [pc EXCEPT ![p] = "idle"]
    /\ UNCHANGED <<opsStarted, sheet, dataOps, lastCall, dataTask>>
    /\ UNCHANGED <<now, op, limiterVars, cacheVars>>

\* the sheets open, the j-th request of the operation fails (its except branch)
RunRequestFails(p, j) ==
    /\ pc[p] = "connect"
    /\ j \in 1..OpCalls(p)
    /\ credentials' = TRUE
    /\ client' = TRUE
    /\ inventory_sheet' = TRUE
    /\ metadata_sheet' = TRUE
    /\ last_refresh' = RefreshAfterEnsure
    /\ connection_attempts' = AttemptsAfterEnsure
    /\ netRequests' = CountUpTo(netRequests + OpenCalls + j)
    /\ Fail(p)
    /\ UNCHANGED <<opsStarted, sheet, dataOps, lastCall, dataTask>>
    /\ UNCHANGED <<now, op, limiterVars, cacheVars>>

\* get_sheets, lines 464-476: the j-th call that opens the sheets fails; the
\* session is dropped and the call is retried after 2 ** attempts seconds, or
\* the error is raised to the operation
RunOpenFails(p, j) ==
    /\ pc[p] = "connect"
    /\ j \in 1..OpenCalls
    /\ credentials' = TRUE
    /\ client' = FALSE
    /\ inventory_sheet' = FALSE
    /\ metadata_sheet' = FALSE
    /\ last_refresh' = RefreshAfterEnsure
    /\ connection_attempts' = AttemptsAfterEnsure + 1
    /\ netRequests' = CountUpTo(netRequests + j)
    /\ IF AttemptsAfterEnsure + 1 < MaxConnectionAttempts
       THEN /\ pc' = [pc EXCEPT ![p] = "backoff"]
            /\ wakeAt' = [wakeAt EXCEPT ![p] = now + Pow2(AttemptsAfterEnsure + 1)]
            /\ retries' = [retries EXCEPT ![p] = @ + 1]
            /\ UNCHANGED <<stats, result, ranges>>
       ELSE /\ Fail(p)
            /\ UNCHANGED wakeAt
    /\ UNCHANGED <<opsStarted, sheet, dataOps, lastCall, dataTask>>
    /\ UNCHANGED <<now, op, calls, lockHolder, lockWaiters, callAt, ahead, lastGrant,
                   grants, cacheVars>>

\* line 474: the sleep is over, get_sheets runs again
Retry(p) ==
    /\ pc[p] = "backoff"
    /\ now >= wakeAt[p]
    /\ pc' = [pc EXCEPT ![p] = "connect"]
    /\ wakeAt' = [wakeAt EXCEPT ![p] = 0]
    /\ UNCHANGED <<now, op, calls, lockHolder, lockWaiters, callAt, ahead, lastGrant,
                   grants, cacheVars, clientVars>>

\* ------------------------------------------------------------ InMemoryCache

\* keys are strings, written as sequences of their pieces
CacheKeys == {<<"user_data:", "1">>, <<"user_data:", "1", "2">>, <<"admin_id">>}
Patterns == {<<"user_data:">>, <<"user_data:", "1">>}
\* the (value, ex) pairs the runs call set() with
SetInputs == {<<"v1", 1>>, <<"v2", 2>>}

Absent == "absent"
NoFile == [state |-> "missing", entries |-> <<>>]
NoData == [taken |-> FALSE, entries |-> <<>>, backup_time |-> 0]

Range(f) == {f[i] : i \in DOMAIN f}
KeysOf(c) == {c[i].key : i \in DOMAIN c}
IndexOf(c, k) == CHOOSE i \in DOMAIN c : c[i].key = k
Without(c, ks) == SelectSeq(c, LAMBDA e : e.key \notin ks)

\* CacheEntry.is_expired: (datetime.now() - created_at).total_seconds() > ttl
IsExpiredNever(e, t) == FALSE
IsExpired(e, t) == t - e.created_at > e.ttl

\* CacheEntry.update_access
UpdateAccess(e, t) == [e EXCEPT !.access_count = @ + 1, !.last_access = t]

\* CacheEntry(key, value, created_at=now, ttl=ex): access_count 0, last_access now
NewEntry(k, v, ttl, t) ==
    [key |-> k, value |-> v, created_at |-> t, ttl |-> ttl,
     access_count |-> 0, last_access |-> t]

\* self._cache[key] = entry; self._cache.move_to_end(key)
PutLast(c, e) == Append(Without(c, {e.key}), e)

\* self._cache[key] = entry: an existing key keeps its place
Put(c, e) ==
    IF e.key \in KeysOf(c) THEN [c EXCEPT ![IndexOf(c, e.key)] = e]
    ELSE Append(c, e)

\* the sort key of _evict_lru: (access_count, last_access)
SortsBeforeByRecency(a, b) == a.last_access < b.last_access
SortsBefore(a, b) ==
    \/ a.access_count < b.access_count
    \/ a.access_count = b.access_count /\ a.last_access < b.last_access

\* the place of c[i] in sorted(self._cache.items(), key=...), a stable sort
SortedPlace(c, i) ==
    Cardinality({j \in DOMAIN c :
        \/ SortsBefore(c[j], c[i])
        \/ ~SortsBefore(c[i], c[j]) /\ j < i})

\* remove_count = max(1, len(self._cache) // 10)
RemoveCount(c) == IF Len(c) \div EvictDivisor >= 1 THEN Len(c) \div EvictDivisor ELSE 1

\* _evict_lru: the keys of sorted_items[:remove_count]
EvictLruVictims(c) ==
    LET remove_count == RemoveCount(c) IN
    {c[i].key : i \in {j \in DOMAIN c : SortedPlace(c, j) < remove_count}}

EvictLru(c) ==
    LET victims == EvictLruVictims(c) IN
    SelectSeq(c, LAMBDA e : e.key \notin victims)

\* `pattern in k` on strings
Contains(pattern, k) ==
    \E i \in 0..(Len(k) - Len(pattern)) :
        \A j \in 1..Len(pattern) : k[i + j] = pattern[j]

\* set(), lines 256-271: evict when full, then insert at the end
SetResultEvictAfter(c, k, v, ttl, t) ==
    LET put == PutLast(c, NewEntry(k, v, ttl, t)) IN
    IF Len(c) >= MaxSize THEN EvictLru(put) ELSE put
SetResult(c, k, v, ttl, t) ==
    PutLast(IF Len(c) >= MaxSize THEN EvictLru(c) ELSE c, NewEntry(k, v, ttl, t))

CacheSet(k, v, ttl) ==
    /\ cache' = SetResult(cache, k, v, ttl, now)
    /\ UNCHANGED <<disk, backupData, restoreData, backups, restores, closing>>

\* get(), lines 238-254
GetValue(c, k, t) ==
    IF k \in KeysOf(c) /\ ~IsExpired(c[IndexOf(c, k)], t)
    THEN c[IndexOf(c, k)].value ELSE Absent

GetResult(c, k, t) ==
    IF k \notin KeysOf(c) THEN c
    ELSE IF IsExpired(c[IndexOf(c, k)], t) THEN Without(c, {k})
    ELSE PutLast(c, UpdateAccess(c[IndexOf(c, k)], t))

CacheGet(k) ==
    /\ k \in KeysOf(cache) => cache[IndexOf(cache, k)].access_count < MaxAccess
    /\ cache' = GetResult(cache, k, now)
    /\ UNCHANGED <<disk, backupData, restoreData, backups, restores, closing>>

\* delete(), lines 273-279
CacheDelete(k) ==
    /\ cache' = Without(cache, {k})
    /\ UNCHANGED <<disk, backupData, restoreData, backups, restores, closing>>

\* delete_pattern(), lines 281-286
CacheDeletePattern(pattern) ==
    /\ cache' = Without(cache, {k \in KeysOf(cache) : Contains(pattern, k)})
    /\ UNCHANGED <<disk, backupData, restoreData, backups, restores, closing>>

\* _cleanup_expired, lines 288-298
CleanupExpiredSkipped(c, t) == c
CleanupExpired(c, t) == SelectSeq(c, LAMBDA e : ~IsExpired(e, t))

\* one round of _periodic_cleanup, lines 215-220; the cache lock is never held
\* across an await, so the round runs without suspending
SweepResult(c, t) ==
    LET live == CleanupExpired(c, t) IN
    IF ThresholdDen * Len(live) > ThresholdNum * MaxSize THEN EvictLru(live) ELSE live

Sweep ==
    /\ cache' = SweepResult(cache, now)
    /\ UNCHANGED <<disk, backupData, restoreData, backups, restores, closing>>

\* datetime.isoformat() / datetime.fromisoformat(): a timestamp as ISO text
IsoFormat(t) == <<"iso", t>>
FromIsoFormat(x) == x[2]

\* CacheEntry.to_dict / from_dict: the same six fields, timestamps as ISO text
ToDict(e) ==
    [key |-> e.key, value |-> e.value, created_at |-> IsoFormat(e.created_at),
     ttl |-> e.ttl, access_count |-> e.access_count,
     last_access |-> IsoFormat(e.last_access)]
FromDictFresh(d) ==
    [key |-> d.key, value |-> d.value, created_at |-> FromIsoFormat(d.created_at),
     ttl |-> d.ttl, access_count |-> 0,
     last_access |-> FromIsoFormat(d.created_at)]
FromDict(d) ==
    [key |-> d.key, value |-> d.value, created_at |-> FromIsoFormat(d.created_at),
     ttl |-> d.ttl, access_count |-> d.access_count,
     last_access |-> FromIsoFormat(d.last_access)]

\* 'entries': [entry.to_dict() for entry in self._cache.values()]
SnapshotEntries(c) == [i \in DOMAIN c |-> ToDict(c[i])]

\* _backup_to_disk, lines 323-328: every resident entry goes into the snapshot
BackupSnapshot ==
    /\ ~backupData.taken
    /\ backups < MaxBackups
    /\ backups' = backups + 1
    /\ backupData' = [taken |-> TRUE, entries |-> SnapshotEntries(cache), backup_time |-> now]
    /\ UNCHANGED <<cache, disk, restoreData, restores, closing>>

\* lines 330-331: open(..., 'w') empties the file, write() fills it
BackupWrite ==
    /\ backupData.taken
    /\ IF disk.state = "open"
       THEN /\ disk' = [state |-> "written", entries |-> backupData.entries]
            /\ backupData' = NoData
       ELSE /\ disk' = [state |-> "open", entries |-> <<>>]
            /\ UNCHANGED backupData
    /\ UNCHANGED <<cache, restoreData, backups, restores, closing>>

\* restore_from_disk, lines 341-346: json.loads fails on a file not yet written
RestoreRead ==
    /\ ~restoreData.taken
    /\ disk.state = "written"
    /\ restores < MaxRestores
    /\ restores' = restores + 1
    /\ restoreData' = [taken |-> TRUE, entries |-> disk.entries, backup_time |-> 0]
    /\ UNCHANGED <<cache, disk, backupData, backups, closing>>

\* lines 348-355: every unexpired entry of the snapshot is put into the cache
RECURSIVE RestoreInto(_, _, _)
RestoreInto(c, ds, t) ==
    IF ds = <<>> THEN c
    ELSE LET e == FromDict(Head(ds)) IN
         RestoreInto(IF IsExpired(e, t) THEN c ELSE Put(c, e), Tail(ds), t)

RestoreApply ==
    /\ restoreData.taken
    /\ cache' = RestoreInto(cache, restoreData.entries, now)
    /\ restoreData' = NoData
    /\ UNCHANGED <<disk, backupData, backups, restores, closing>>

\* shutdown(), lines 380-396: the backup task is cancelled, not awaited, and
\* _backup_to_disk runs once more. `periodic` is what the cancelled task still
\* has to do: nothing, or close the file it has opened and written to
NotClosing == [pc |-> "running", periodic |-> "idle", entries |-> <<>>]
Running == closing.pc = "running"

\* what a file holds after `new` is written at its start through a second
\* file object: nothing truncates the file after open(..., 'w')
Overlay(old, new) == new \o SubSeq(old, Len(new) + 1, Len(old))

\* lines 383-390 and 318-330: both tasks are cancelled, the final snapshot is
\* taken and the call is suspended in aiofiles.open. A backup task that was
\* suspended in aiofiles.open never writes; one that has opened the file is
\* suspended in f.write, or has not run since its open returned and never writes
ShutdownCall ==
    /\ Running
    /\ \E todo \in (IF backupData.taken /\ disk.state = "open"
                     THEN {"close", "idle"} ELSE {"idle"}) :
          closing' = [pc |-> "open", periodic |-> todo, entries |-> SnapshotEntries(cache)]
    /\ UNCHANGED <<cache, disk, backupData, restoreData, backups, restores>>

\* line 330: shutdown's open(..., 'w') empties the file
ShutdownOpen ==
    /\ closing.pc = "open"
    /\ disk' = [state |-> "open", entries |-> <<>>]
    /\ closing' = [closing EXCEPT !.pc = "write"]
    /\ UNCHANGED <<cache, backupData, restoreData, backups, restores>>

\* the cancelled backup task leaves `async with aiofiles.open(...)`: closing
\* its file flushes what it wrote. It runs when shutdown is suspended in its
\* open, so its close is queued before shutdown's write and close
CancelledBackupClose ==
    /\ closing.pc = "write"
    /\ closing.periodic = "close"
    /\ disk' = [state |-> "written", entries |-> Overlay(disk.entries, backupData.entries)]
    /\ backupData' = NoData
    /\ closing' = [closing EXCEPT !.periodic = "idle"]
    /\ UNCHANGED <<cache, restoreData, backups, restores>>

\* lines 331-333 and 390-392: shutdown's write and close, then it returns
ShutdownWrite ==
    /\ closing.pc = "write"
    /\ closing.periodic = "idle"
    /\ disk' = [state |-> "written", entries |-> Overlay(disk.entries, closing.entries)]
    /\ closing' = [closing EXCEPT !.pc = "done"]
    /\ UNCHANGED <<cache, backupData, restoreData, backups, restores>>

\* the clock of the cache's runs
TickCache ==
    /\ now < MaxCacheTime
    /\ now' = now + 1
    /\ UNCHANGED <<pc, op, limiterVars, cacheVars, clientVars>>

otherVars == <<now, pc, op, limiterVars, clientVars>>

DoSet == \E k \in CacheKeys, inp \in SetInputs :
             CacheSet(k, inp[1], inp[2]) /\ UNCHANGED otherVars
\* the runs that also snapshot and restore call set() with one (value, ex) pair
DoSetShort == \E k \in CacheKeys : CacheSet(k, "v1", 1) /\ UNCHANGED otherVars
DoGet == \E k \in CacheKeys : CacheGet(k) /\ UNCHANGED otherVars
DoDelete == \E k \in CacheKeys : CacheDelete(k) /\ UNCHANGED otherVars
DoDeletePattern == \E pattern \in Patterns : CacheDeletePattern(pattern) /\ UNCHANGED otherVars
DoSweep == Sweep /\ UNCHANGED otherVars


\* ------------------------------------------------------- data access layer
\* A store call is modelled by what it returns and by the statistics it counts;
\* the requests that fail during one call of the layer are an input of the call.

\* the users of the metadata sheet, their ids as text
Ids == {<<"1">>, <<"1", "2">>}
\* the order of their rows in the inventory sheet
RowOrder == << <<"1">>, <<"1", "2">> >>
\* an id that no row of the metadata sheet holds, and the id in cell B2
Stranger == <<"2">>
AdminUser == <<"3">>
UserIds == Ids \cup {Stranger, AdminUser}
Coins == 0..MaxCoins
\* the integers a caller passes as coins or corruption
Amounts == (0 - MaxCoins)..MaxCoins

MetaKey == <<"user_metadata">>
AllKey == <<"all_user_data">>
AdminKey == <<"admin_id">>
UserKey(id) == <<"user_data:">> \o id
DisplayKey(id) == <<"user_inventory_display:">> \o id
PermsKey(id) == <<"user_perms:">> \o id

\* the requests of one call that can fail: the batch_get of the metadata
\* ranges, the batch_get of the inventory range, batch_update, get_single_cell
Requests == {"metadata", "inventory", "write", "cell"}
Envs == SUBSET Requests
Healthy == {}
\* the runs explored here fail at most one request in a call: of those a read,
\* a write, a permission check make
ReadFailures == {Healthy, {"metadata"}, {"inventory"}}
Failures == ReadFailures \cup {{"write"}}
CellFailures == {Healthy, {"metadata"}, {"cell"}}

\* row[2] = str(coins), and int(row[2]) if str(row[2]).isdigit() else 0
Str(n) == <<"str", n>>
IsDigit(cell) == cell[2] >= 0
ParseCoins(cell) == IF IsDigit(cell) THEN cell[2] ELSE 0
\* int(str(row[6]).strip()), lines 724-727
ParseCorruption(cell) == cell[2]

\* the cells of a row this model follows: row[2] and row[6]
Row(a, b) == [coins |-> Str(a), corruption |-> Str(b)]

\* the record get_batch_user_data builds from a row (lines 729-745), the cached
\* mapping and administrator id, and the None of an unknown user
UserRecord(id, row) ==
    [user_id |-> id, coins |-> ParseCoins(row.coins),
     corruption |-> ParseCorruption(row.corruption)]
Mapping == [user_metadata |-> Ids]
AdminId == [admin_id |-> AdminUser]
NoRecord == [none |-> TRUE]

\* the keyword arguments of an update: <<>> for an argument left out (None, or
\* a key the dict of the batch lacks), <<n>> for the integer n
Opt == {<<>>} \cup {<<n>> : n \in Amounts}
Updates == [coins : Opt, corruption : Opt]
SetCoins(n) == [coins |-> <<n>>, corruption |-> <<>>]

\* max(0, corruption), lines 833 and 917
ClampCorruption(n) == IF n < 0 THEN 0 ELSE n

\* lines 820-822 and 832-834, 908-909 and 916-917: the cells after the update
UpdatedRowCleared(row, upd) ==
    [coins |-> IF upd.coins # <<>> THEN Str(upd.coins[1]) ELSE Str(0),
     corruption |-> IF upd.corruption # <<>>
                    THEN Str(ClampCorruption(upd.corruption[1]))
                    ELSE Str(0)]
UpdatedRow(row, upd) ==
    [coins |-> IF upd.coins # <<>> THEN Str(upd.coins[1]) ELSE row.coins,
     corruption |-> IF upd.corruption # <<>>
                    THEN Str(ClampCorruption(upd.corruption[1]))
                    ELSE row.corruption]

\* cache_manager.get(k) returns a value (every value cached here is truthy)
Hit(c, k, t) == k \in KeysOf(c) /\ ~IsExpired(c[IndexOf(c, k)], t)

\* the fields of the UserData dataclass and the keys UserData.to_dict() emits
UserDataFields ==
    {"user_id", "name", "inventory_name", "user_type", "health", "coins", "items",
     "outfits", "physical_status", "corruption"}
ToDictKeys ==
    {"user_id", "name", "inventory_name", "type", "health", "coins", "items",
     "outfits", "physical_status", "corruption"}
\* UserData(**data) on a cached dict: an unknown keyword raises TypeError
RebuildsUserData == ToDictKeys \subseteq UserDataFields

\* get_cached_metadata, lines 582-653: a cached mapping is rebuilt outside the
\* try block; a miss reads the store once and caches the mapping, and a read
\* that fails gives the empty mapping
GetCachedMetadata(c, t, env) ==
    LET c1 == GetResult(c, MetaKey, t) IN
    IF Hit(c, MetaKey, t)
    THEN [cache |-> c1, reads |-> 0, failed |-> 0, raised |-> ~RebuildsUserData,
          mapping |-> Ids]
    ELSE IF "metadata" \in env
    THEN [cache |-> c1, reads |-> 1, failed |-> 1, raised |-> FALSE, mapping |-> {}]
    ELSE [cache |-> SetResult(c1, MetaKey, Mapping, LongTTL, t), reads |-> 1,
          failed |-> 0, raised |-> FALSE, mapping |-> Ids]

\* get_admin_id, lines 656-670: "" when the cell cannot be read
GetAdminId(c, t, env) ==
    LET c1 == GetResult(c, AdminKey, t) IN
    IF Hit(c, AdminKey, t)
    THEN [cache |-> c1, id |-> c[IndexOf(c, AdminKey)].value.admin_id, reads |-> 0,
          failed |-> 0]
    ELSE IF "cell" \in env
    THEN [cache |-> c1, id |-> <<>>, reads |-> 1, failed |-> 1]
    ELSE [cache |-> SetResult(c1, AdminKey, AdminId, LongTTL, t), id |-> AdminUser,
          reads |-> 1, failed |-> 0]

\* what a call of the layer did: the cache and the store after it, the
\* batch_get and get_single_cell calls it made, those of the inventory data
\* range among them, its batch_update calls, the ids whose rows it wrote, the
\* store calls that failed, whether it returned a success, and whether an
\* exception left it
Outcome(c, sh, reads, invReads, writes, written, failed, ret, raised) ==
    [cache |-> c, sheet |-> sh, reads |-> reads, invReads |-> invReads,
     writes |-> writes, written |-> written, failed |-> failed, ret |-> ret,
     raised |-> raised]

\* lines 749-750: each row of a requested id is cached under its own key
RECURSIVE CacheRowsAll(_, _, _, _, _)
CacheRowsAll(c, rows, ids, t, sh) ==
    IF rows = <<>> THEN c
    ELSE CacheRowsAll(SetResult(c, UserKey(Head(rows)), UserRecord(Head(rows), sh[Head(rows)]),
                                ShortTTL, t),
                      Tail(rows), ids, t, sh)
RECURSIVE CacheRows(_, _, _, _, _)
CacheRows(c, rows, ids, t, sh) ==
    IF rows = <<>> THEN c
    ELSE LET id == Head(rows) IN
         CacheRows(IF id \in ids
                   THEN SetResult(c, UserKey(id), UserRecord(id, sh[id]), ShortTTL, t)
                   ELSE c,
                   Tail(rows), ids, t, sh)

\* get_batch_user_data(user_ids=ids), lines 682-761: an exception, also the one
\* of get_cached_metadata, gives the empty dict
GetBatchUserData(c, ids, t, sh, env) ==
    LET m == GetCachedMetadata(c, t, env)
        none == [id \in {} |-> NoRecord]
    IN
    IF m.raised \/ m.mapping = {}
    THEN [cache |-> m.cache, reads |-> m.reads, invReads |-> 0, failed |-> m.failed,
          data |-> none]
    ELSE IF "inventory" \in env
    THEN [cache |-> m.cache, reads |-> m.reads + 1, invReads |-> 1,
          failed |-> m.failed + 1, data |-> none]
    ELSE [cache |-> CacheRows(m.cache, RowOrder, ids, t, sh), reads |-> m.reads + 1,
          invReads |-> 1, failed |-> m.failed,
          data |-> [id \in ids \cap Ids |-> UserRecord(id, sh[id])]]

\* get_batch_user_data(), lines 675-680 and 752-754: the call for every user
\* answers from "all_user_data" and caches its result there
GetAllUserData(c, t, sh, env) ==
    LET c1 == GetResult(c, AllKey, t) IN
    IF Hit(c, AllKey, t)
    THEN [cache |-> c1, reads |-> 0, invReads |-> 0, failed |-> 0,
          data |-> c[IndexOf(c, AllKey)].value.all]
    ELSE LET b == GetBatchUserData(c1, Ids, t, sh, env) IN
         IF b.invReads = 1 /\ b.failed = 0
         THEN [b EXCEPT !.cache = SetResult(b.cache, AllKey, [all |-> b.data], ShortTTL, t)]
         ELSE b

\* get_user_inventory, lines 764-774
GetUserInventory(c, id, t, sh, env) ==
    LET c1 == GetResult(c, UserKey(id), t) IN
    IF Hit(c, UserKey(id), t)
    THEN [cache |-> c1, reads |-> 0, invReads |-> 0, failed |-> 0,
          ret |-> c[IndexOf(c, UserKey(id))].value]
    ELSE LET b == GetBatchUserData(c1, {id}, t, sh, env) IN
         [cache |-> b.cache, reads |-> b.reads, invReads |-> b.invReads,
          failed |-> b.failed,
          ret |-> IF id \in DOMAIN b.data THEN b.data[id] ELSE NoRecord]

\* line 787: user_id not in user_metadata
InMetadataAssumed(m, id) == TRUE
InMetadata(m, id) == id \in m.mapping

\* lines 848-852: the entries update_user_inventory deletes after its write
Invalidated(c, id) ==
    Without(c, {UserKey(id), AllKey}
               \cup {k \in KeysOf(c) : Contains(DisplayKey(id), k)})

\* line 848: the deletes run only `if success`
AfterFailedWriteInvalidated(c, id) == Invalidated(c, id)
AfterFailedWrite(c, id) == c

\* update_user_inventory(id, coins=, corruption=), lines 777-860: resolve the
\* id, read the rows, write the row of the id, delete its cache entries; every
\* exception is caught and gives False
UpdateUserInventory(c, id, upd, t, sh, env) ==
    LET m == GetCachedMetadata(c, t, env) IN
    IF m.raised \/ ~InMetadata(m, id)
    THEN Outcome(m.cache, sh, m.reads, 0, 0, {}, m.failed, FALSE, FALSE)
    ELSE IF "inventory" \in env
    THEN Outcome(m.cache, sh, m.reads + 1, 1, 0, {}, m.failed + 1, FALSE, FALSE)
    ELSE IF id \notin DOMAIN sh
    THEN Outcome(m.cache, sh, m.reads + 1, 1, 0, {}, m.failed, FALSE, FALSE)
    ELSE IF upd.coins = <<>> /\ upd.corruption = <<>>
    THEN Outcome(m.cache, sh, m.reads + 1, 1, 0, {}, m.failed, TRUE, FALSE)
    ELSE IF "write" \in env
    THEN Outcome(AfterFailedWrite(m.cache, id), sh, m.reads + 1, 1, 1, {},
                 m.failed + 1, FALSE, FALSE)
    ELSE Outcome(Invalidated(m.cache, id), [sh EXCEPT ![id] = UpdatedRow(sh[id], upd)],
                 m.reads + 1, 1, 1, {id}, m.failed, TRUE, FALSE)

\* lines 880-888: the ids of the batch whose row is found
Resolved(m, ups, sh) == {id \in DOMAIN ups : id \in m.mapping /\ id \in DOMAIN sh}

\* batch_update_user_inventory(ups), lines 863-951: one batch_update for the
\* rows of the ids it can resolve; the others are skipped
BatchUpdateUserInventory(c, ups, t, sh, env) ==
    LET m == GetCachedMetadata(c, t, env)
        known == Resolved(m, ups, sh)
    IN
    IF DOMAIN ups = {}
    THEN Outcome(c, sh, 0, 0, 0, {}, 0, TRUE, FALSE)
    ELSE IF m.raised
    THEN Outcome(m.cache, sh, m.reads, 0, 0, {}, m.failed, FALSE, FALSE)
    ELSE IF "inventory" \in env
    THEN Outcome(m.cache, sh, m.reads + 1, 1, 0, {}, m.failed + 1, FALSE, FALSE)
    ELSE IF known = {}
    THEN Outcome(m.cache, sh, m.reads + 1, 1, 0, {}, m.failed, TRUE, FALSE)
    ELSE IF "write" \in env
    THEN Outcome(m.cache, sh, m.reads + 1, 1, 1, {}, m.failed + 1, FALSE, FALSE)
    ELSE Outcome(Without(m.cache,
                         {UserKey(id) : id \in known}
                         \cup {DisplayKey(id) : id \in known} \cup {AllKey}),
                 [id \in Ids |-> IF id \in known THEN UpdatedRow(sh[id], ups[id])
                                 ELSE sh[id]],
                 m.reads + 1, 1, 1, known, m.failed, TRUE, FALSE)

\* the flags of columns C and D of the metadata rows, and the two answers
\* get_user_permissions builds itself
Granted == [can_give |-> TRUE, can_revoke |-> TRUE]
Denied == [can_give |-> FALSE, can_revoke |-> FALSE]
RowPerms(id) ==
    IF id = <<"1">> THEN [can_give |-> TRUE, can_revoke |-> FALSE] ELSE Denied

\* get_user_permissions, lines 954-993: the cached answer, else the
\* administrator's id, else the flags of the user's metadata row
GetUserPermissions(c, id, t, env) ==
    LET c1 == GetResult(c, PermsKey(id), t) IN
    IF Hit(c, PermsKey(id), t)
    THEN [cache |-> c1, perms |-> c[IndexOf(c, PermsKey(id))].value, reads |-> 0,
          failed |-> 0]
    ELSE LET a == GetAdminId(c1, t, env) IN
         IF id = a.id
         THEN [cache |-> SetResult(a.cache, PermsKey(id), Granted, DefaultTTL, t),
               perms |-> Granted, reads |-> a.reads, failed |-> a.failed]
         ELSE IF "metadata" \in env
         THEN [cache |-> a.cache, perms |-> Denied, reads |-> a.reads + 1,
               failed |-> a.failed + 1]
         ELSE [cache |-> SetResult(a.cache, PermsKey(id), RowPerms(id), DefaultTTL, t),
               perms |-> RowPerms(id), reads |-> a.reads + 1, failed |-> a.failed]

\* increment_daily_values, lines 1001-1058: one more coin in every row whose
\* coins cell is a number (no user is dead here), one batch_update for all of
\* them, then every per-user entry is deleted
IncrementDailyValues(c, t, sh, env) ==
    LET due == {id \in Ids : IsDigit(sh[id].coins)} IN
    IF "inventory" \in env
    THEN Outcome(c, sh, 1, 1, 0, {}, 1, FALSE, FALSE)
    ELSE IF due = {}
    THEN Outcome(c, sh, 1, 1, 0, {}, 0, TRUE, FALSE)
    ELSE IF "write" \in env
    THEN Outcome(c, sh, 1, 1, 1, {}, 1, FALSE, FALSE)
    ELSE Outcome(Without(c, {k \in KeysOf(c) :
                                \/ k = AllKey
                                \/ Contains(<<"user_data:">>, k)
                                \/ Contains(<<"user_inventory_display:">>, k)}),
                 [id \in Ids |-> IF id \in due
                                 THEN [sh[id] EXCEPT !.coins = Str(sh[id].coins[2] + 1)]
                                 ELSE sh[id]],
                 1, 1, 1, due, 0, TRUE, FALSE)

\* force_refresh_metadata, lines 1147-1162: drop and reload the mapping and the
\* administrator's id
ForceRefreshMetadata(c, t, env) ==
    LET m == GetCachedMetadata(Without(c, {MetaKey, AdminKey}), t, env)
        a == GetAdminId(m.cache, t, env)
    IN  [cache |-> a.cache, reads |-> m.reads + a.reads, failed |-> m.failed + a.failed]

\* the most recent call of the layer, as its caller saw it
NoCall ==
    [op |-> "none", task |-> None, ids |-> {}, ret |-> FALSE, rec |-> NoRecord, perms |-> Denied,
     raised |-> FALSE, reads |-> 0, invReads |-> 0, writes |-> 0, written |-> {},
     failed |-> 0]

\* the calls of sheets_client count themselves in its statistics
CountCalls(n, failed) ==
    /\ stats' = [stats EXCEPT !.api_calls = @ + n,
                              !.successful_calls = @ + (n - failed),
                              !.failed_calls = @ + failed]
    /\ UNCHANGED <<pc, op, limiterVars, disk, backupData, restoreData, backups,
                   restores, closing, credentials, client, inventory_sheet, metadata_sheet,
                   last_refresh, connection_attempts, ranges, result, netRequests,
                   retries, opsStarted>>

\* one more call of the layer has run
StoreCalls(n, failed) ==
    /\ CountCalls(n, failed)
    /\ dataOps < MaxDataOps
    /\ dataOps' = dataOps + 1

DataGetMetadata(env) ==
    \E m \in {GetCachedMetadata(cache, now, env)} :
    /\ cache' = m.cache
    /\ lastCall' = [NoCall EXCEPT !.op = "metadata", !.raised = m.raised,
                                   !.ret = m.mapping # {} /\ ~m.raised,
                                   !.reads = m.reads, !.failed = m.failed]
    /\ UNCHANGED <<now, sheet, dataTask>>
    /\ StoreCalls(m.reads, m.failed)

DataGet(id, env) ==
    \E g \in {GetUserInventory(cache, id, now, sheet, env)} :
    /\ cache' = g.cache
    /\ lastCall' = [NoCall EXCEPT !.op = "get", !.ids = {id}, !.rec = g.ret,
                                   !.ret = g.ret # NoRecord, !.reads = g.reads,
                                   !.invReads = g.invReads, !.failed = g.failed]
    /\ UNCHANGED <<now, sheet, dataTask>>
    /\ StoreCalls(g.reads, g.failed)

DataGetAll(env) ==
    \E g \in {GetAllUserData(cache, now, sheet, env)} :
    /\ cache' = g.cache
    /\ lastCall' = [NoCall EXCEPT !.op = "get_all", !.ids = DOMAIN g.data,
                                   !.ret = DOMAIN g.data # {}, !.reads = g.reads,
                                   !.invReads = g.invReads, !.failed = g.failed]
    /\ UNCHANGED <<now, sheet, dataTask>>
    /\ StoreCalls(g.reads, g.failed)

\* what the caller of an update or a batch update saw
Written(name, ids, u) ==
    [NoCall EXCEPT !.op = name, !.ids = ids, !.ret = u.ret, !.raised = u.raised,
                   !.reads = u.reads, !.invReads = u.invReads, !.writes = u.writes,
                   !.written = u.written, !.failed = u.failed]

DataUpdate(id, upd, env) ==
    \E u \in {UpdateUserInventory(cache, id, upd, now, sheet, env)} :
    /\ cache' = u.cache
    /\ sheet' = u.sheet
    /\ lastCall' = Written("update", {id}, u)
    /\ UNCHANGED <<now, dataTask>>
    /\ StoreCalls(u.reads + u.writes, u.failed)

DataBatchUpdate(ups, env) ==
    \E u \in {BatchUpdateUserInventory(cache, ups, now, sheet, env)} :
    /\ cache' = u.cache
    /\ sheet' = u.sheet
    /\ lastCall' = Written("batch_update", DOMAIN ups, u)
    /\ UNCHANGED <<now, dataTask>>
    /\ StoreCalls(u.reads + u.writes, u.failed)

DataIncrement(env) ==
    \E u \in {IncrementDailyValues(cache, now, sheet, env)} :
    /\ cache' = u.cache
    /\ sheet' = u.sheet
    /\ lastCall' = Written("increment", Ids, u)
    /\ UNCHANGED <<now, dataTask>>
    /\ StoreCalls(u.reads + u.writes, u.failed)

DataPermissions(id, env) ==
    \E g \in {GetUserPermissions(cache, id, now, env)} :
    /\ cache' = g.cache
    /\ lastCall' = [NoCall EXCEPT !.op = "permissions", !.ids = {id}, !.perms = g.perms,
                                   !.ret = g.failed = 0, !.reads = g.reads,
                                   !.failed = g.failed]
    /\ UNCHANGED <<now, sheet, dataTask>>
    /\ StoreCalls(g.reads, g.failed)

DataForceRefresh(env) ==
    \E r \in {ForceRefreshMetadata(cache, now, env)} :
    /\ cache' = r.cache
    /\ lastCall' = [NoCall EXCEPT !.op = "force_refresh", !.ret = TRUE,
                                   !.reads = r.reads, !.failed = r.failed]
    /\ UNCHANGED <<now, sheet, dataTask>>
    /\ StoreCalls(r.reads, r.failed)

\* the clock of the data layer's runs
TickData ==
    /\ now < MaxDataTime
    /\ now' = now + 1
    /\ UNCHANGED <<pc, op, limiterVars, cacheVars, clientVars>>

\* ------------------------------------------- data access layer: restarts
\* initialize_utility_system, lines 1183-1200, in a new process: the cache
\* starts empty, restore_from_disk puts back the unexpired entries of a
\* complete snapshot file, then the mapping and the administrator's id are
\* loaded; an exception of get_cached_metadata is raised again
DataRestart(env) ==
    /\ restores < MaxRestores
    /\ restores' = restores + 1
    /\ \E r \in {IF disk.state = "written" THEN RestoreInto(<<>>, disk.entries, now)
                  ELSE <<>>} :
       \E m \in {GetCachedMetadata(r, now, env)} :
       \E a \in {GetAdminId(m.cache, now, env)} :
          /\ cache' = IF m.raised THEN m.cache ELSE a.cache
          /\ lastCall' = [NoCall EXCEPT !.op = "initialize", !.raised = m.raised,
                                        !.ret = ~m.raised]
          /\ stats' = IF m.raised
                      THEN [api_calls |-> 0, successful_calls |-> 0, failed_calls |-> 0]
                      ELSE [api_calls |-> m.reads + a.reads,
                            successful_calls |-> (m.reads + a.reads) - (m.failed + a.failed),
                            failed_calls |-> m.failed + a.failed]
    /\ dataOps' = 0
    /\ backupData' = NoData
    /\ restoreData' = NoData
    /\ UNCHANGED <<now, pc, op, limiterVars, disk, backups, closing, credentials, client,
                   inventory_sheet, metadata_sheet, last_refresh, connection_attempts,
                   ranges, result, netRequests, retries, sheet, dataTask, opsStarted>>

\* the process serves calls: its start-up has not ended with an exception
Serving == ~(lastCall.op = "initialize" /\ lastCall.raised)

\* the maps a batch update is called with here: two users of the metadata
\* sheet, or one of them and an id the sheet does not hold
BatchInputs ==
    UNION {[S -> {SetCoins(n) : n \in {0 - MaxCoins, MaxCoins}}] :
             S \in {Ids, {<<"1">>, Stranger}}}

\* the updates a run makes: coins or corruption below zero, both above, none
UpdateInputs ==
    {SetCoins(0 - MaxCoins), [coins |-> <<>>, corruption |-> <<0 - MaxCoins>>],
     [coins |-> <<MaxCoins>>, corruption |-> <<MaxCoins>>],
     [coins |-> <<>>, corruption |-> <<>>]}
\* the ids the runs update and ask the permissions of
Callers == {<<"1">>, Stranger, AdminUser}

\* ---------------------------------------- data access layer: concurrent callers
\* Each caller is a task of the event loop.  A task is suspended only inside
\* rate_limiter.acquire() and get_sheets(), which batch_get and batch_update
\* await before they send their request (lines 480-481, 527-528); the request
\* itself is a blocking call, and no cache method awaits while it holds the
\* cache's lock, so a request and the cache calls that follow it run in one
\* step.  The callers work on the row of one user.
TheId == <<"1">>
Writer == CHOOSE p \in ClientProcs : \A q \in ClientProcs : p <= q

\* a caller of the layer that is not inside a call
Idle ==
    [pc |-> "idle", op |-> "none", upd |-> SetCoins(0), row |-> Row(0, 0),
     wrote |-> FALSE]

\* the call of task p returns
Return(p, call) ==
    /\ lastCall' = [call EXCEPT !.task = p, !.ids = {TheId}]
    /\ dataTask' = [dataTask EXCEPT
                      ![p] = [Idle EXCEPT !.wrote = dataTask[p].wrote
                                                   \/ (call.op = "update" /\ call.ret)]]

\* the task goes on to its next request and is suspended before it
AwaitRequest(p, name, where, upd, row) ==
    /\ dataTask' = [dataTask EXCEPT ![p] = [@ EXCEPT !.pc = where, !.op = name,
                                                     !.upd = upd, !.row = row]]
    /\ UNCHANGED lastCall

Found(rec) == [NoCall EXCEPT !.op = "get", !.rec = rec, !.ret = TRUE]
NotFound == [NoCall EXCEPT !.op = "get"]
Updated(ok) == [NoCall EXCEPT !.op = "update", !.ret = ok]

\* get_cached_metadata up to its request, lines 584-600, for the call `name`
\* of task p: a cached mapping is rebuilt (or raises, which the caller turns
\* into its failure value), a miss goes on to the batch_get of the metadata
LookupMetadata(p, name, c, upd, failure) ==
    /\ cache' = GetResult(c, MetaKey, now)
    /\ IF ~Hit(c, MetaKey, now)
       THEN AwaitRequest(p, name, "metadata", upd, Row(0, 0))
       ELSE IF RebuildsUserData
       THEN AwaitRequest(p, name, "inventory", upd, Row(0, 0))
       ELSE Return(p, failure)

\* get_user_inventory up to its first request, lines 767-773
TaskStartGet(p) ==
    /\ dataTask[p].pc = "idle"
    /\ dataOps < MaxDataOps
    /\ dataOps' = dataOps + 1
    /\ IF Hit(cache, UserKey(TheId), now)
       THEN /\ cache' = GetResult(cache, UserKey(TheId), now)
            /\ Return(p, Found(cache[IndexOf(cache, UserKey(TheId))].value))
       ELSE LookupMetadata(p, "get", GetResult(cache, UserKey(TheId), now),
                           SetCoins(0), NotFound)
    /\ UNCHANGED <<now, sheet>>
    /\ CountCalls(0, 0)

\* update_user_inventory up to its first request, line 786
TaskStartUpdate(p, upd) ==
    /\ p = Writer
    /\ dataTask[p].pc = "idle"
    /\ dataOps < MaxDataOps
    /\ dataOps' = dataOps + 1
    /\ LookupMetadata(p, "update", cache, upd, Updated(FALSE))
    /\ UNCHANGED <<now, sheet>>
    /\ CountCalls(0, 0)

\* update_user_inventory called by any task, with the cells it supplies
SetCorruption(n) == [coins |-> <<>>, corruption |-> <<n>>]
TaskStartUpdateAny(p, upd) ==
    /\ dataTask[p].pc = "idle"
    /\ dataOps < MaxDataOps
    /\ dataOps' = dataOps + 1
    /\ LookupMetadata(p, "update", cache, upd, Updated(FALSE))
    /\ UNCHANGED <<now, sheet>>
    /\ CountCalls(0, 0)

\* the batch_get of get_cached_metadata answers, lines 600-653; the caller
\* goes on to the batch_get of the inventory range (lines 691, 796)
TaskMetadata(p, env) ==
    /\ dataTask[p].pc = "metadata"
    /\ IF "metadata" \in env
       THEN /\ Return(p, IF dataTask[p].op = "get" THEN NotFound ELSE Updated(FALSE))
            /\ UNCHANGED cache
       ELSE /\ cache' = SetResult(cache, MetaKey, Mapping, LongTTL, now)
            /\ AwaitRequest(p, dataTask[p].op, "inventory", dataTask[p].upd, Row(0, 0))
    /\ UNCHANGED <<now, sheet, dataOps>>
    /\ CountCalls(1, IF "metadata" \in env THEN 1 ELSE 0)

\* the batch_get of the inventory range answers: get_batch_user_data caches
\* and returns the row (lines 692-757), update_user_inventory updates its copy
\* of the row and goes on to batch_update (lines 797-846)
TaskInventory(p, env) ==
    /\ dataTask[p].pc = "inventory"
    /\ IF "inventory" \in env
       THEN /\ Return(p, IF dataTask[p].op = "get" THEN NotFound ELSE Updated(FALSE))
            /\ UNCHANGED cache
       ELSE IF dataTask[p].op = "get"
       THEN /\ cache' = CacheRows(cache, RowOrder, {TheId}, now, sheet)
            /\ Return(p, Found(UserRecord(TheId, sheet[TheId])))
       ELSE /\ AwaitRequest(p, "update", "write", dataTask[p].upd,
                            UpdatedRow(sheet[TheId], dataTask[p].upd))
            /\ UNCHANGED cache
    /\ UNCHANGED <<now, sheet, dataOps>>
    /\ CountCalls(1, IF "inventory" \in env THEN 1 ELSE 0)

\* batch_update answers, lines 846-856
TaskWrite(p, env) ==
    /\ dataTask[p].pc = "write"
    /\ IF "write" \in env
       THEN /\ Return(p, Updated(FALSE))
            /\ UNCHANGED <<cache, sheet>>
       ELSE /\ sheet' = [sheet EXCEPT ![TheId] = dataTask[p].row]
            /\ cache' = Invalidated(cache, TheId)
            /\ Return(p, Updated(TRUE))
    /\ UNCHANGED <<now, dataOps>>
    /\ CountCalls(1, IF "write" \in env THEN 1 ELSE 0)

Init ==
    /\ now = 0
    /\ calls = <<>>
    /\ lockHolder = None
    /\ lockWaiters = <<>>
    /\ pc = [p \in Procs |-> "idle"]
    /\ op = [p \in Procs |-> "acquire"]
    /\ wakeAt = [p \in Procs |-> 0]
    /\ callAt = [p \in Procs |-> 0]
    /\ ahead = [p \in Procs |-> 0]
    /\ lastGrant = [task |-> None, waited |-> 0, ahead |-> 0, slept |-> FALSE, size |-> 0]
    /\ grants = <<>>
    /\ cache = <<>>
    /\ disk = NoFile
    /\ backupData = NoData
    /\ closing = NotClosing
    /\ restoreData = NoData
    /\ backups = 0
    /\ restores = 0
    /\ credentials = FALSE
    /\ client = FALSE
    /\ inventory_sheet = FALSE
    /\ metadata_sheet = FALSE
    /\ last_refresh = 0
    /\ connection_attempts = 0
    /\ stats = [api_calls |-> 0, successful_calls |-> 0, failed_calls |-> 0]
    /\ ranges = [p \in Procs |-> {}]
    /\ result = [p \in Procs |-> "none"]
    /\ netRequests = 0
    /\ retries = [p \in Procs |-> 0]
    /\ sheet = [id \in Ids |-> Row(0, 0)]
    /\ dataOps = 0
    /\ lastCall = NoCall
    /\ dataTask = [p \in Procs |-> Idle]
    /\ opsStarted = 0

LimiterStep == \E p \in Procs : Acquire(p) \/ Resume(p) \/ Wake(p)

NextLimiter == LimiterStep \/ Tick
NextLimiterTimely == LimiterStep \/ TickTimely

SpecLimiter == Init /\ [][NextLimiter]_vars

SpecLimiterFair ==
    /\ Init
    /\ [][NextLimiterTimely]_vars
    /\ \A p \in Procs : WF_vars(Resume(p)) /\ WF_vars(Wake(p))
    /\ WF_vars(TickTimely)

DoBackupSnapshot == BackupSnapshot /\ UNCHANGED otherVars
DoBackupWrite == BackupWrite /\ UNCHANGED otherVars
DoRestoreRead == RestoreRead /\ UNCHANGED otherVars
DoRestoreApply == RestoreApply /\ UNCHANGED otherVars

NextCache == DoSet \/ DoGet \/ DoDelete \/ DoDeletePattern \/ DoSweep \/ TickCache
SpecCache == Init /\ [][NextCache]_vars

\* the cache until shutdown() is called, then the shutdown
NextCacheShutdown ==
    \/ Running /\ DoSetShort
    \/ Running /\ DoGet
    \/ Running /\ DoDelete
    \/ Running /\ DoSweep
    \/ Running /\ DoBackupSnapshot
    \/ Running /\ DoBackupWrite
    \/ Running /\ TickCache
    \/ ShutdownCall /\ UNCHANGED otherVars
    \/ ShutdownOpen /\ UNCHANGED otherVars
    \/ CancelledBackupClose /\ UNCHANGED otherVars
    \/ ShutdownWrite /\ UNCHANGED otherVars
SpecCacheShutdown == Init /\ [][NextCacheShutdown]_vars

NextCacheDisk ==
    \/ DoSetShort \/ DoGet \/ DoDelete \/ DoDeletePattern \/ DoSweep
    \/ DoBackupSnapshot \/ DoBackupWrite \/ DoRestoreRead \/ DoRestoreApply
    \/ TickCache
SpecCacheDisk == Init /\ [][NextCacheDisk]_vars

\* a store operation that can run without waiting for the clock
ClientRunnable(p) ==
    \/ Runnable(p)
    \/ pc[p] = "connect"
    \/ pc[p] = "backoff" /\ now >= wakeAt[p]

\* the clock of the store client's runs: ready tasks run before it advances
TickClient ==
    /\ now < MaxClientTime
    /\ \A p \in Procs : ~ClientRunnable(p)
    /\ now' = now + 1
    /\ UNCHANGED <<pc, op, limiterVars, cacheVars, clientVars>>

NextClient ==
    \/ \E p \in ClientProcs, o \in StoreOps, rs \in RangeSets : StartOp(p, o, rs)
    \/ \E p \in ClientProcs : Resume(p)
    \/ \E p \in ClientProcs : Wake(p)
    \/ \E p \in ClientProcs : ConnectNoCredentials(p)
    \/ \E p \in ClientProcs : RunOk(p)
    \/ \E p \in ClientProcs : \E j \in 1..2 : RunRequestFails(p, j)
    \/ \E p \in ClientProcs : \E j \in 1..(2 * OpenCallsPerSheet) : RunOpenFails(p, j)
    \/ \E p \in ClientProcs : Retry(p)
    \/ TickClient

SpecClient == Init /\ [][NextClient]_vars

NextData ==
    \/ \E env \in ReadFailures : DataGetMetadata(env)
    \/ \E id \in Ids \cup {Stranger}, env \in ReadFailures : DataGet(id, env)
    \/ \E env \in ReadFailures : DataGetAll(env)
    \/ \E id \in {<<"1">>, Stranger}, upd \in UpdateInputs, env \in Failures :
          DataUpdate(id, upd, env)
    \/ \E ups \in BatchInputs, env \in Failures : DataBatchUpdate(ups, env)
    \/ TickData
SpecData == Init /\ [][NextData]_vars

NextPermissions ==
    \/ \E id \in Callers, env \in CellFailures : DataPermissions(id, env)
    \/ \E env \in CellFailures : DataForceRefresh(env)
    \/ \E env \in Failures : DataIncrement(env)
    \/ TickData
SpecPermissions == Init /\ [][NextPermissions]_vars

NextDataDisk ==
    \/ Serving /\ DataGet(TheId, Healthy)
    \/ Serving /\ \E n \in Coins, env \in {Healthy, {"write"}} : DataUpdate(TheId, SetCoins(n), env)
    \/ Serving /\ \E env \in {Healthy, {"metadata"}} : DataForceRefresh(env)
    \/ DoBackupSnapshot
    \/ DoBackupWrite
    \/ \E env \in {Healthy, {"metadata"}} : DataRestart(env)
    \/ TickData
SpecDataDisk == Init /\ [][NextDataDisk]_vars

\* callers that update the same row, each its own cells
NextDataWriters ==
    \/ \E p \in ClientProcs, upd \in {SetCoins(MaxCoins), SetCorruption(MaxCoins)} :
          TaskStartUpdateAny(p, upd)
    \/ \E p \in ClientProcs, env \in ReadFailures : TaskMetadata(p, env)
    \/ \E p \in ClientProcs, env \in ReadFailures : TaskInventory(p, env)
    \/ \E p \in ClientProcs, env \in Failures : TaskWrite(p, env)
    \/ TickData
SpecDataWriters == Init /\ [][NextDataWriters]_vars

NextDataTasks ==
    \/ \E p \in ClientProcs : TaskStartGet(p)
    \/ \E p \in ClientProcs, n \in Coins : TaskStartUpdate(p, SetCoins(n))
    \/ \E p \in ClientProcs, env \in ReadFailures : TaskMetadata(p, env)
    \/ \E p \in ClientProcs, env \in ReadFailures : TaskInventory(p, env)
    \/ \E p \in ClientProcs, env \in Failures : TaskWrite(p, env)
    \/ TickData
SpecDataTasks == Init /\ [][NextDataTasks]_vars

\* ------------------------------------------------- APIRateLimiter: claims

\* the grants whose timestamp lies in the window of length Window ending at t
GrantsIn(t) == {i \in DOMAIN grants : t - Window < grants[i] /\ grants[i] <= t}

\* C1: no window of length Window (the trailing window (t - Window, t] of any
\* instant t) ever contains more than MaxCalls grant timestamps.
C1_WindowNeverOverfull ==
    \A t \in 0..MaxTime : Cardinality(GrantsIn(t)) <= MaxCalls

\* a caller was granted after sleeping, in a window that is now exactly full
C1_Witness ==
    /\ lastGrant.slept
    /\ Len(grants) > MaxCalls
    /\ Cardinality(GrantsIn(now)) = MaxCalls

\* C3: every call of acquire() eventually returns with a grant for that caller.
C3_AcquireReturns ==
    \A p \in Procs :
        (pc[p] \in {"lock", "sleep"}) ~> (pc[p] = "idle" /\ lastGrant.task = p)

\* a caller that queued behind two others was granted after sleeping
C3_Witness == lastGrant.ahead >= 2 /\ lastGrant.slept

\* C4 as stated: the time from the call to the grant is at most Window + Epsilon.
C4_WaitWithinWindow == lastGrant.waited <= Window + Epsilon

\* C4 amended: a caller with k callers ahead of it at the lock is granted within
\* (k + 1) * (Window + Epsilon) of its call, and has waited no longer while it
\* is still queued or asleep.
C4_WaitWithinQueueBound ==
    /\ lastGrant.waited <= (lastGrant.ahead + 1) * (Window + Epsilon)
    /\ \A p \in Procs :
          pc[p] \in {"lock", "sleep"} =>
              now - callAt[p] <= (ahead[p] + 1) * (Window + Epsilon)

\* a queued caller was granted later than Window + Epsilon after its call
C4_Witness == lastGrant.ahead >= 1 /\ lastGrant.waited > Window + Epsilon

\* C5: whenever acquire() returns, self.calls holds at most MaxCalls entries,
\* also when the grant follows a sleep.
C5_CallsBounded == Len(calls) <= MaxCalls /\ lastGrant.size <= MaxCalls

\* a grant after a sleep that left the list exactly full
C5_Witness == lastGrant.slept /\ lastGrant.size = MaxCalls /\ Len(calls) = MaxCalls

InSection(p) == pc[p] = "sleep"

\* C6: at most one caller is inside acquire()'s critical section, it owns the
\* lock, nobody else touches the window while it is suspended there, and a
\* grant appends exactly one timestamp to the pruned window.
C6_Serialized ==
    /\ [](Cardinality({p \in Procs : InSection(p)}) <= 1)
    /\ [](\A p \in Procs : InSection(p) => lockHolder = p)
    /\ [][(\E p \in Procs : InSection(p) /\ InSection(p)') =>
              (calls' = calls /\ grants' = grants)]_vars
    /\ [][grants' # grants =>
              (/\ Len(grants') = Len(grants) + 1
               /\ calls' = Append(Prune(calls, now), now))]_vars

\* one caller sleeps in the section while two others wait for the lock
C6_Witness ==
    \E p \in Procs : InSection(p) /\ Len(lockWaiters) >= 2

\* -------------------------------------------------- InMemoryCache: claims

\* more than ttl seconds have passed since e was created
Elapsed(e, t) == t - e.created_at > e.ttl

\* C7: in every cache state, set(k, v, ttl) followed at once by get(k), at any
\* instant before ttl has elapsed, returns v.
C7_SetThenGet ==
    \A k \in CacheKeys, inp \in SetInputs :
        LET v == inp[1]
            ttl == inp[2]
            after == SetResult(cache, k, v, ttl, now)
        IN  \A t \in now..(now + ttl) :
                t - now < ttl => GetValue(after, k, t) = v

\* a full cache that holds an entry which was set and then read
C7_Witness ==
    /\ Len(cache) = MaxSize
    /\ \E i \in DOMAIN cache : cache[i].access_count >= 1 /\ cache[i].value = "v2"

\* C8: get(key) never returns the value of an entry created more than ttl
\* seconds ago: it answers absent while the entry is still resident, now and at
\* every later instant with no sweep in between; what it returns is the value
\* of a resident entry whose ttl has not elapsed.
C8_ExpiredIsAbsent ==
    /\ \A i \in DOMAIN cache : \A t \in now..(MaxCacheTime + 1) :
          Elapsed(cache[i], t) => GetValue(cache, cache[i].key, t) = Absent
    /\ \A k \in CacheKeys :
          GetValue(cache, k, now) # Absent =>
              \E i \in DOMAIN cache :
                  /\ cache[i].key = k
                  /\ ~Elapsed(cache[i], now)
                  /\ cache[i].value = GetValue(cache, k, now)

\* an entry whose ttl has elapsed is still resident
C8_Witness == \E i \in DOMAIN cache : Elapsed(cache[i], now)

\* C9: the cache never holds more than MaxSize entries.
C9_SizeBounded == Len(cache) <= MaxSize

\* (access count, last access) of a is no greater than that of b
NoGreater(a, b) ==
    \/ a.access_count < b.access_count
    \/ a.access_count = b.access_count /\ a.last_access <= b.last_access

\* the entries of c under other keys than k that a set(k, ...) removed / kept
EvictedBySet(c, k, after) == {e \in Range(c) : e.key # k /\ e.key \notin KeysOf(after)}
KeptBySet(c, k, after) == {e \in Range(c) : e.key # k /\ e \in Range(after)}

\* C10: a set on a cache at capacity evicts only entries whose (access count,
\* last access) is no greater than that of every entry that survives.
C10_EvictsLeastUsed ==
    Len(cache) >= MaxSize =>
        \A k \in CacheKeys, inp \in SetInputs :
            LET after == SetResult(cache, k, inp[1], inp[2], now)
                evicted == EvictedBySet(cache, k, after)
                kept == KeptBySet(cache, k, after)
            IN  /\ \A e \in evicted, s \in kept : NoGreater(e, s)
                /\ \A e \in Range(cache) : e.key # k => e \in evicted \cup kept

\* a full cache whose least used entry is not its least recently used one,
\* and a key outside it to set
C10_Witness ==
    /\ Len(cache) = MaxSize
    /\ \E k \in CacheKeys : k \notin KeysOf(cache)
    /\ \E i, j \in DOMAIN cache :
          /\ cache[i].access_count < cache[j].access_count
          /\ cache[i].last_access > cache[j].last_access

\* the entries of c whose ttl has not elapsed at t, in the cache's order
Unexpired(c, t) == SelectSeq(c, LAMBDA e : ~Elapsed(e, t))

\* C11: a snapshot of any cache state, restored into an empty cache at any later
\* instant, yields exactly the entries whose ttl has not elapsed then, with the
\* same key, value, creation time, ttl and access count, and none of the others.
C11_SnapshotRoundTrip ==
    \A t \in now..(MaxCacheTime + 1) :
        RestoreInto(<<>>, SnapshotEntries(cache), t) = Unexpired(cache, t)

\* a cache that holds an entry that was read and one whose ttl elapses first
C11_Witness ==
    \E i, j \in DOMAIN cache :
        /\ cache[i].access_count >= 1 /\ ~Elapsed(cache[i], now + 1)
        /\ Elapsed(cache[j], now + 1)

\* C12: a snapshot holds only entries that are unexpired when it is taken.
C12_SnapshotUnexpired ==
    backupData.taken =>
        \A i \in DOMAIN backupData.entries :
            ~Elapsed(FromDict(backupData.entries[i]), backupData.backup_time)

\* C13: the snapshot file is never seen emptied or partly written.
C13_FileComplete == disk.state \in {"missing", "written"}


\* ----------------------------------------------- GoogleSheetsClient: claims

\* C2: every request sent to the store has its own grant: the requests sent so
\* far are no more than the grants issued so far.
C2_RequestsWithinGrants == netRequests <= Len(grants)

\* C14: an operation stops retrying after MaxConnectionAttempts failed attempts
\* to open the sheets: no operation in progress has failed that often and is
\* still going to try again.
C14_AttemptsBounded == \A p \in Procs : retries[p] < MaxConnectionAttempts

\* a batch operation reports a failure after its sheets were reached
ReportsBatchFailure(p) ==
    /\ op[p] \in {"batch_get", "batch_update"}
    /\ pc[p] = "connect"
    /\ result'[p] = "failed"
    /\ credentials'

\* C15: a batch operation reports a failure only after the cached session was
\* dropped and the operation was tried again.
C15_BatchFailureRetried ==
    [][\A p \in Procs : ReportsBatchFailure(p) => (~client' /\ retries[p] >= 1)]_vars

\* the store operations that have started and not yet returned
InProgress == {p \in Procs : pc[p] # "idle"}

\* C16: api_calls = successful_calls + failed_calls, and api_calls counts each
\* operation that has returned exactly once, whether it succeeded or failed.
C16_StatsConsistent ==
    /\ stats.api_calls = stats.successful_calls + stats.failed_calls
    /\ stats.api_calls + Cardinality(InProgress) = opsStarted

\* operations have succeeded and failed, and another is in progress
C16_Witness ==
    /\ stats.successful_calls >= 1
    /\ stats.failed_calls >= 1
    /\ InProgress # {}

\* ------------------------------------------------ data access layer: claims

\* C17: two get_user_inventory(id) in a row, from a cache with no entry for id,
\* make one store read together, and the second makes none.
C17_TwoGetsOneRead ==
    \A id \in Ids :
        ~Hit(cache, UserKey(id), now) =>
            LET g1 == GetUserInventory(cache, id, now, sheet, Healthy)
                g2 == GetUserInventory(g1.cache, id, now, sheet, Healthy)
            IN  g1.reads + g2.reads = 1 /\ g2.reads = 0

\* C18: in every state update_user_inventory(id, coins=n) with n >= 0 succeeds
\* and the get_user_inventory(id) that follows returns a record with coins = n.
C18_UpdateThenGet ==
    \A id \in Ids, n \in Coins :
        LET u == UpdateUserInventory(cache, id, SetCoins(n), now, sheet, Healthy)
            g == GetUserInventory(u.cache, id, now, u.sheet, Healthy)
        IN  u.ret /\ g.ret = UserRecord(id, [sheet[id] EXCEPT !.coins = Str(n)])

\* C19: after a successful update_user_inventory(id, coins=n) the entry of id
\* holds the written record and the next get_user_inventory(id) reads no store.
C19_WriteThrough ==
    \A id \in Ids, n \in Coins :
        LET u == UpdateUserInventory(cache, id, SetCoins(n), now, sheet, Healthy) IN
        u.ret =>
            /\ Hit(u.cache, UserKey(id), now)
            /\ u.cache[IndexOf(u.cache, UserKey(id))].value
                  = UserRecord(id, [sheet[id] EXCEPT !.coins = Str(n)])
            /\ GetUserInventory(u.cache, id, now, u.sheet, Healthy).reads = 0

\* C20: batch_update_user_inventory for two ids makes one store write, and
\* afterwards get_user_inventory returns the new coins of each.
C20_BatchUpdateThenGets ==
    \A a, b \in Coins :
        LET u == BatchUpdateUserInventory(cache,
                     [id \in Ids |-> SetCoins(IF id = <<"1">> THEN a ELSE b)],
                     now, sheet, Healthy)
            g1 == GetUserInventory(u.cache, <<"1">>, now, u.sheet, Healthy)
            g2 == GetUserInventory(g1.cache, <<"1", "2">>, now, u.sheet, Healthy)
        IN  /\ u.writes = 1
            /\ g1.ret = UserRecord(<<"1">>, [sheet[<<"1">>] EXCEPT !.coins = Str(a)])
            /\ g2.ret = UserRecord(<<"1", "2">>, [sheet[<<"1", "2">>] EXCEPT !.coins = Str(b)])

\* C21: every row update_user_inventory or batch_update_user_inventory has
\* written holds coins >= 0 and corruption >= 0, whatever integers were passed:
\* the store, whose rows start non-negative, never holds a negative cell.
C21_StoredNonNegative ==
    \A id \in Ids : sheet[id].coins[2] >= 0 /\ sheet[id].corruption[2] >= 0

\* C22: update_user_inventory for an id the metadata mapping does not hold
\* returns False, and has neither read the inventory data range nor written to
\* the store.
C22_UnknownIdNotFound ==
    (lastCall.op = "update" /\ lastCall.ids \cap Ids = {}) =>
        /\ ~lastCall.ret
        /\ lastCall.invReads = 0
        /\ lastCall.writes = 0

\* an update for an unknown id that loaded the mapping from the store
C22_Witness ==
    /\ lastCall.op = "update"
    /\ lastCall.ids = {Stranger}
    /\ lastCall.reads = 1
    /\ lastCall.failed = 0

\* C23: batch_update_user_inventory returns True only when it has written the
\* row of every id of its input map; a map with an id the metadata cannot
\* resolve is never answered with True.
C23_BatchAllOrNothing ==
    (lastCall.op = "batch_update" /\ lastCall.ret) => lastCall.written = lastCall.ids

\* the per-id, aggregate and display entries of c, in the cache's order
DataEntries(c) ==
    SelectSeq(c, LAMBDA e :
        e.key[1] \in {"user_data:", "all_user_data", "user_inventory_display:"})

\* the cache is full: the next set() of a new key evicts
Full(c) == Len(c) >= MaxSize

\* C24 as stated: when the batch_update of update_user_inventory or of
\* batch_update_user_inventory fails, the call returns False and the per-id,
\* aggregate and display entries are exactly those of before the call.
C24_FailedWriteKeepsEntries ==
    /\ \A id \in Ids, upd \in UpdateInputs :
          LET u == UpdateUserInventory(cache, id, upd, now, sheet, {"write"}) IN
          u.writes = 1 => (~u.ret /\ DataEntries(u.cache) = DataEntries(cache))
    /\ \A ups \in BatchInputs :
          LET u == BatchUpdateUserInventory(cache, ups, now, sheet, {"write"}) IN
          u.writes = 1 => (~u.ret /\ DataEntries(u.cache) = DataEntries(cache))

\* C24 amended: when the batch_update fails the call returns False and deletes
\* no entry: the per-id, aggregate and display entries are those left by the
\* call's metadata lookup, which are exactly those of before the call unless
\* the lookup cached the mapping into a full cache and so evicted entries.
C24_FailedWriteDeletesNothing ==
    LET m == GetCachedMetadata(cache, now, {"write"})
        c1 == GetResult(cache, MetaKey, now)
    IN
    /\ \A id \in Ids, upd \in UpdateInputs :
          LET u == UpdateUserInventory(cache, id, upd, now, sheet, {"write"}) IN
          u.writes = 1 =>
              /\ ~u.ret
              /\ DataEntries(u.cache) = DataEntries(m.cache)
              /\ ~Full(c1) => DataEntries(u.cache) = DataEntries(cache)
    /\ \A ups \in BatchInputs :
          LET u == BatchUpdateUserInventory(cache, ups, now, sheet, {"write"}) IN
          u.writes = 1 =>
              /\ ~u.ret
              /\ DataEntries(u.cache) = DataEntries(m.cache)
              /\ ~Full(c1) => DataEntries(u.cache) = DataEntries(cache)

\* an update whose write failed has returned, and the entry of its id is still
\* in the cache
C24_Witness ==
    /\ lastCall.op = "update"
    /\ lastCall.writes = 1
    /\ ~lastCall.ret
    /\ \E id \in lastCall.ids : UserKey(id) \in KeysOf(cache)

\* C25: in every reachable state of the cache, get_user_permissions called
\* with the administrator's id, the store answering every request of the
\* call, returns (True, True).
C25_AdminGranted ==
    GetUserPermissions(cache, AdminUser, now, Healthy).perms = Granted

\* C26: no call of the data layer (get_cached_metadata, get_batch_user_data,
\* get_user_inventory, update_user_inventory, batch_update_user_inventory,
\* get_user_permissions, get_admin_id) ends with an exception raised to its
\* caller.
C26_NoExceptionEscapes == ~lastCall.raised

\* a get_user_inventory never returns a record that differs from the row the
\* store holds when it returns
ReturnedRecordCurrent ==
    (lastCall.op = "get" /\ lastCall.ret) =>
        \A id \in lastCall.ids : lastCall.rec = UserRecord(id, sheet[id])

\* C27: once an update_user_inventory of a caller has returned True, every
\* get_user_inventory of that caller returns the record of the row the store
\* then holds (the caller's own last write, no other caller writing), whatever
\* reads of other callers interleave.
C27_OwnWriteVisible ==
    (lastCall.op = "get" /\ lastCall.task = Writer /\ dataTask[Writer].wrote) =>
        (lastCall.ret /\ ReturnedRecordCurrent)

\* C28: no get_user_inventory, after any sequence of reads, writes, snapshots,
\* restarts and restores, is answered with a record that differs from the row
\* the store holds: a successful write is never followed by a read of the
\* pre-write record.
C28_NoStaleRead ==
    (lastCall.op = "get" /\ lastCall.ret) =>
        lastCall.rec = UserRecord(TheId, sheet[TheId])

\* ------------------------------------------------------ locks of the components

\* the locks a task owns while it is suspended. Only the rate limiter keeps its
\* lock across a suspension (the sleep of line 163); _ensure_connection (lines
\* 426-447) and the cache (lines 240-300, 323-328, 348-364) have no await
\* inside `async with self._lock`, so their locks are taken and released
\* within one step of a task
HeldLocks(p) == IF lockHolder = p THEN {"rate_limiter"} ELSE {}

\* the lock a task's next step asks for, or that it is suspended on
RequestedLocks(p) ==
    IF pc[p] = "lock" /\ lockHolder # p THEN {"rate_limiter"}
    ELSE IF pc[p] = "connect" THEN {"client"}
    ELSE {}

\* the task is suspended on a timer (asyncio.sleep, lines 163 and 474)
OnTimer(p) == pc[p] \in {"sleep", "backoff"}

\* C29: no task requests the lock of one component while holding the lock of
\* another, a task that holds a lock while suspended waits for a timer and
\* for no other component, and whenever operations are in progress one of
\* their tasks can run or is waiting for a timer only (no deadlock).
C29_NoCrossComponentWait ==
    /\ \A p \in Procs :
          HeldLocks(p) # {} =>
              /\ RequestedLocks(p) = {}
              /\ pc[p] = "sleep" \/ (pc[p] = "lock" /\ Runnable(p))
    /\ InProgress # {} => \E p \in InProgress : ClientRunnable(p) \/ OnTimer(p)

\* a task sleeps in acquire() holding the rate limiter's lock, a second task is
\* suspended on that lock, or is about to take the client's lock
C29_Witness ==
    \E p \in ClientProcs, q \in ClientProcs :
        /\ p # q
        /\ HeldLocks(p) = {"rate_limiter"}
        /\ pc[p] = "sleep"
        /\ RequestedLocks(q) # {}

\* ------------------------------------------------- _ensure_connection: claims

\* self._client after _ensure_connection: the one it had, if still fresh,
\* or the one gspread.authorize returned (lines 430-447)
SessionAfterEnsure == IF client /\ ~Stale THEN client ELSE TRUE

\* the step in which task p's _ensure_connection returned normally: the
\* credentials were there or could be loaded (lines 435-442 did not raise)
EnsureReturned(p) == pc[p] = "connect" /\ pc'[p] # "connect" /\ credentials'

\* C30: whenever _ensure_connection returns normally the session is present
\* and its last refresh is at most _refresh_interval old; the call runs from
\* the test of the age to the new session in one step of one task, so no two
\* refreshes overlap.
C30_EnsuredSessionFresh ==
    [][\A p \in Procs :
          EnsureReturned(p) =>
              /\ SessionAfterEnsure
              /\ last_refresh' = RefreshAfterEnsure
              /\ now - last_refresh' <= RefreshInterval
              /\ \A q \in Procs \ {p} : pc'[q] = pc[q]]_vars

\* operations have succeeded, none has failed, and the session in use was
\* made more than _refresh_interval after the first one
C30_Witness ==
    /\ client
    /\ last_refresh > RefreshInterval
    /\ stats.successful_calls >= 2
    /\ stats.failed_calls = 0

\* C31: a get_cached_metadata that finds "user_metadata" cached and unexpired
\* makes no store call and returns, without an exception, the mapping that
\* the call which cached it returned.
C31_CachedMetadataReturned ==
    (lastCall.op = "metadata" /\ lastCall.reads = 0) =>
        (lastCall.ret /\ ~lastCall.raised)

\* C32: a successful update_user_inventory(id, ...) writes a row equal to the
\* row it read with only the supplied cells replaced: a cell whose argument
\* was left out keeps its stored value, a supplied one holds the value built
\* from the argument, and no other row of the sheet is written.
C32_UpdateKeepsOtherFields ==
    \A id \in Ids, upd \in Updates, env \in Failures :
        \E u \in {UpdateUserInventory(cache, id, upd, now, sheet, env)} :
            u.ret =>
                /\ u.written \subseteq {id}
                /\ \A other \in Ids \ {id} : u.sheet[other] = sheet[other]
                /\ upd.coins = <<>> => u.sheet[id].coins = sheet[id].coins
                /\ upd.corruption = <<>> => u.sheet[id].corruption = sheet[id].corruption
                /\ upd.coins # <<>> => u.sheet[id].coins = Str(upd.coins[1])
                /\ upd.corruption # <<>> =>
                       u.sheet[id].corruption = Str(ClampCorruption(upd.corruption[1]))

\* an update that supplied coins only has just been written to a row whose
\* corruption cell an earlier update had set
C32_Witness ==
    /\ lastCall.op = "update"
    /\ lastCall.ret
    /\ lastCall.writes = 1
    /\ \E id \in lastCall.written :
          /\ sheet[id].coins = Str(0 - MaxCoins)
          /\ sheet[id].corruption = Str(MaxCoins)

\* the step in which the update of task p wrote its row and returned True
WriteReturned(p) ==
    /\ dataTask[p].pc = "write"
    /\ dataTask'[p].pc = "idle"
    /\ lastCall'.task = p
    /\ lastCall'.ret

\* C33: when callers update different cells of the same row concurrently, a
\* completed update leaves every cell it did not supply as the store holds it:
\* it never puts back the value the cell had before another caller's
\* completed write.
C33_NoFieldReverted ==
    [][\A p \in ClientProcs :
          WriteReturned(p) =>
              /\ dataTask[p].upd.coins = <<>> => sheet'[TheId].coins = sheet[TheId].coins
              /\ dataTask[p].upd.corruption = <<>> =>
                     sheet'[TheId].corruption = sheet[TheId].corruption]_vars

\* the cache after a command module has cached the inventory display of id
\* under "user_inventory_display:{id}" (the key batch_update_user_inventory
\* deletes at line 939)
WithDisplay(c, id, t) == SetResult(c, DisplayKey(id), [display |-> id], ShortTTL, t)

\* C34: a successful update_user_inventory(id, ...) removes from the cache
\* only the per-id entry of id, "all_user_data" and the display entries of
\* id: the per-id and display entries of every other id, "user_metadata",
\* "admin_id" and the permission entries stay.
C34_InvalidatesOnlyItsId ==
    \A id \in Ids : \A other \in Ids \ {id} :
        \E c \in {WithDisplay(cache, other, now)} :
        \E u \in {UpdateUserInventory(c, id, SetCoins(MaxCoins), now, sheet, Healthy)} :
            (u.ret /\ u.writes = 1 /\ ~Full(c)) =>
                KeysOf(c) \ {UserKey(id), AllKey, DisplayKey(id)} \subseteq KeysOf(u.cache)

\* the entries of c whose ttl has not elapsed at t
LiveEntries(c, t) == {e \in Range(c) : ~Elapsed(e, t)}

MaxCapacity == 20

\* a cache of max_size n that n set() calls of different keys have filled
FilledCache(n, t) == [i \in 1..n |-> NewEntry(<<"key", i>>, "v1", 1, t)]

\* set(), lines 256-271, of a cache built with max_size = cap
SetAtCapacity(c, k, v, ttl, t, cap) ==
    PutLast(IF Len(c) >= cap THEN EvictLru(c) ELSE c, NewEntry(k, v, ttl, t))

\* C36: a set of a new key on a cache at capacity evicts exactly one entry,
\* whatever the capacity: the cache holds as many entries after it as before.
C36_SetEvictsOne ==
    \A cap \in 1..MaxCapacity :
        Len(SetAtCapacity(FilledCache(cap, now), <<"new">>, "v2", 1, now, cap)) = cap

\* C37: the delay before the k-th retry of a store operation after a failure
\* to open the sheets is 2^k seconds, so each delay is longer than the one
\* before.
C37_BackoffGrows ==
    [][\A p \in Procs :
          (pc[p] = "connect" /\ pc'[p] = "backoff") =>
              wakeAt'[p] - now = Pow2(retries'[p])]_vars

\* the entry of key k in c was not in b, or was made anew since b
WrittenSince(b, c, k) ==
    /\ k \in KeysOf(c)
    /\ \/ k \notin KeysOf(b)
       \/ c[IndexOf(c, k)].value # b[IndexOf(b, k)].value
       \/ c[IndexOf(c, k)].created_at # b[IndexOf(b, k)].created_at

\* C38: "all_user_data" is written only by a get_batch_user_data call made
\* without ids, so whenever it is cached it holds the record of every row the
\* fetch resolved; a call for given ids writes only the per-id entries of
\* those ids and neither creates nor replaces "all_user_data".
C38_AggregateOnlyFromFullFetch ==
    /\ [](\A i \in DOMAIN cache :
             cache[i].key = AllKey =>
                 /\ DOMAIN cache[i].value.all = Ids
                 /\ \A id \in Ids : cache[i].value.all[id].user_id = id)
    /\ [][WrittenSince(cache, cache', AllKey) =>
              (lastCall'.op = "get_all" /\ lastCall'.invReads = 1)]_vars
    /\ [](\A ids \in SUBSET (Ids \cup {Stranger}) \ {{}}, env \in ReadFailures :
             \E b \in {GetBatchUserData(cache, ids, now, sheet, env)} :
                 /\ ~WrittenSince(cache, b.cache, AllKey)
                 /\ \A id \in UserIds \ ids : ~WrittenSince(cache, b.cache, UserKey(id)))

\* "all_user_data" is cached, and so is a per-id entry that a later call for
\* one id has written
C38_Witness ==
    /\ AllKey \in KeysOf(cache)
    /\ lastCall.op = "get"
    /\ lastCall.invReads = 1
    /\ \E id \in lastCall.ids : UserKey(id) \in KeysOf(cache)

\* ------------------------------------------------------- shutdown: claims

\* C39: when shutdown() has returned, the cancelled backup task has nothing
\* left to do and the snapshot file holds one complete snapshot, that of the
\* cache as it was at shutdown, also when a periodic snapshot was in progress
\* when shutdown was called.
C39_ShutdownSnapshotComplete ==
    closing.pc = "done" =>
        /\ closing.periodic = "idle"
        /\ closing.entries = SnapshotEntries(cache)
        /\ disk = [state |-> "written", entries |-> closing.entries]

====
